---- MODULE Spec2Model ----
(***************************************************************************)
(* A model of the quiz solver service: the POST /solve handler (app.py),   *)
(* the chain driver, the question solver, the regex fallback parser and    *)
(* the answer submission (quiz_solver.py), with the language-model client  *)
(* (llm_handler.py) and the download pathway (data_processor.py) as the    *)
(* sources of the outcomes the solver reacts to.                           *)
(*                                                                         *)
(* Python strings are sequences of tokens (a token is a run of characters  *)
(* no search pattern of the code straddles), and an optional value is a    *)
(* record [some, val]: None is [some |-> FALSE], "" is Some(<<>>).         *)
(***************************************************************************)
EXTENDS Integers, Sequences, FiniteSets, TLC

VARIABLES
    env,            \* process environment: SECRET_STRING, STUDENT_EMAIL, GEMINI_API_KEY
    request,        \* the QuizRequest being handled: email, secret, url
    pc,             \* position of the handler / chain driver / solver
    http,           \* the HTTP response of POST /solve (code 0: none yet)
    solvers,        \* QuizSolver objects constructed for this request
    current_url,    \* solve_quiz_chain: current_url
    question_count, \* solve_quiz_chain: question_count
    question_text,  \* text returned by fetch_quiz_page in this iteration
    parsed_data,    \* solve_question: parsed_data
    parse_api,      \* what the model API gave the parse-step query ("" = not yet)
    parse_how,      \* how parsed_data was obtained in this iteration ("" = not yet)
    data,           \* solve_question: data
    data_how,       \* what the data step did in this iteration
    answer,         \* solve_question: the formatted answer
    submit_url,     \* solve_question: the returned submit_url
    last_post,      \* what requests.post did in the last submit_answer call
    response,       \* solve_quiz_chain: response of the last submit_answer
    error,          \* the error the chain driver recorded ("" when none)
    chain,          \* outcome of solve_quiz_chain: "running", "returned", "raised"
    renders,        \* number of fetch_quiz_page calls
    answer_api,     \* what the model API gave the answer-step query ("" = not yet)
    queries,        \* number of LLMHandler.query calls
    downloaded,     \* whether download_data was ever called
    submissions,    \* number of submit_answer calls
    submitted_for,  \* the question numbers an answer was submitted for
    mp_text,        \* input of a stand-alone _manual_parse call
    mp_result,      \* its result
    fq_pc,          \* fetch_quiz_page: position within the call ("idle" between calls)
    fq_call,        \* fetch_quiz_page: number of calls started
    fq_playwright,  \* whether the async_playwright context of the call is entered
    fq_owner,       \* for each browser launched, the call that launched it
    fq_open,        \* the browsers that are launched and not closed
    fq_browser,     \* fetch_quiz_page: browser (0 = not bound)
    fq_content,     \* fetch_quiz_page: content, with where it was read from
    fq_exc,         \* the exception in flight, by what raised it, then its __context__ chain
    fq_result,      \* how the last call ended
    pd_pc,          \* extract_pdf_data: position within the call
    pd_pages,       \* number of pages of the PDF
    pd_page,        \* page_num of the loop that is running
    pd_log,         \* what pdfplumber gave for each page it finished
    text_data,      \* extract_pdf_data: text_data, as <<page number, extractor>>
    tables,         \* extract_pdf_data: tables, as <<page, table_number>>
    pd_fallback,    \* whether the PyPDF2 fallback was entered
    pd_result       \* the returned dict

vars == <<env, request, pc, http, solvers, current_url, question_count,
          question_text, parsed_data, parse_api, parse_how, data, data_how,
          answer, answer_api, submit_url, last_post, response, error, chain,
          renders, queries, downloaded, submissions, submitted_for,
          mp_text, mp_result, fq_pc, fq_call, fq_playwright, fq_owner,
          fq_open, fq_browser, fq_content, fq_exc, fq_result,
          pd_pc, pd_pages, pd_page, pd_log, text_data, tables, pd_fallback,
          pd_result>>

-----------------------------------------------------------------------------
(* Optional values and Python truthiness of an optional string *)

None == [some |-> FALSE, val |-> <<>>]

Some(v) == [some |-> TRUE, val |-> v]

Truthy(x) == x.some /\ x.val # <<>>

(* dict.get(key, default) on a dict modelled as a record with a key set *)
Get(d, k, default) == IF k \in d.keys THEN d[k] ELSE default

-----------------------------------------------------------------------------
(* Tokens of question texts and URLs *)

Sep == " "

Schemes == {"http://", "https://"}

UrlTokens == {"ex.com/", "submit", "Answer", ".csv"}

TextTokens == {Sep, "https://"} \cup UrlTokens

(* str.lower() on one token *)
Lower(tok) == IF tok = "Answer" THEN "answer" ELSE tok

(* `needle in url.lower()` *)
ContainsLower(url, needle) == \E i \in 1..Len(url) : Lower(url[i]) = needle

DataExtensions == {".pdf", ".csv", ".json", ".xlsx", ".xls"}

-----------------------------------------------------------------------------
(* _manual_parse: the regex fallback parser *)

(* End (exclusive) of the run of URL characters starting at position i *)
RECURSIVE UrlEnd(_, _)
UrlEnd(text, i) ==
    IF i > Len(text) \/ text[i] = Sep THEN i ELSE UrlEnd(text, i + 1)

(* re.findall(url_pattern, text): leftmost non-overlapping matches of a
   scheme followed by at least one URL character *)
RECURSIVE FindUrls(_, _)
FindUrls(text, i) ==
    IF i > Len(text) THEN <<>>
    ELSE IF text[i] \in Schemes /\ UrlEnd(text, i + 1) > i + 1
         THEN <<SubSeq(text, i, UrlEnd(text, i + 1) - 1)>>
                  \o FindUrls(text, UrlEnd(text, i + 1))
         ELSE FindUrls(text, i + 1)

IsSubmitUrl(url) == ContainsLower(url, "submit") \/ ContainsLower(url, "answer")

IsDataUrl(url) == \E ext \in DataExtensions : ContainsLower(url, ext)

(* Mutant: the data extension is tested before submit/answer *)
ClassifyStepDataFirst(acc, url) ==
    IF IsDataUrl(url) THEN [acc EXCEPT !.data_url = Some(url)]
    ELSE IF IsSubmitUrl(url) THEN [acc EXCEPT !.submit_url = Some(url)]
    ELSE acc

(* The loop over urls: acc = [data_url, submit_url] *)
ClassifyStep(acc, url) ==
    IF IsSubmitUrl(url) THEN [acc EXCEPT !.submit_url = Some(url)]
    ELSE IF IsDataUrl(url) THEN [acc EXCEPT !.data_url = Some(url)]
    ELSE acc

RECURSIVE Classify(_, _, _)
Classify(urls, i, acc) ==
    IF i > Len(urls) THEN acc
    ELSE Classify(urls, i + 1, ClassifyStep(acc, urls[i]))

GenericTask == Some(<<"Analyze the data">>)

_manual_parse(text) ==
    LET urls == FindUrls(text, 1)
        c    == Classify(urls, 1, [data_url |-> None, submit_url |-> None])
        s    == IF ~Truthy(c.submit_url) /\ urls # <<>>
                THEN Some(urls[Len(urls)]) ELSE c.submit_url
    IN [isdict        |-> TRUE,
        keys          |-> {"data_url", "task", "submit_url", "answer_format"},
        data_url      |-> c.data_url,
        task          |-> GenericTask,
        submit_url    |-> IF Truthy(s) THEN s ELSE Some(<<>>),
        answer_format |-> "string"]

-----------------------------------------------------------------------------
(* The language-model client *)

(* What the model API can give back to LLMHandler.query *)
ApiResults == {"api_error", "empty", "text"}

(* Mutant: an empty response is returned as if it were text *)
queryNoEmptyCheck(api) == IF api = "api_error" THEN "raise" ELSE "ok"

(* LLMHandler.query: an API error and an empty response both raise
   "Gemini API query failed"; otherwise the text is returned *)
query(api) == IF api \in {"api_error", "empty"} THEN "raise" ELSE "ok"

(* LLMHandler.__init__: raises ValueError without a GEMINI_API_KEY *)
LLMHandlerInit(e) == IF ~Truthy(e.GEMINI_API_KEY) THEN "raise" ELSE "ok"

(* QuizSolver.__init__: builds an LLMHandler, then a DataProcessor, which
   builds a second LLMHandler; the first failure propagates *)
QuizSolverInit(e) == LLMHandlerInit(e)

-----------------------------------------------------------------------------
(* Values the environment of the service can produce *)

UrlA == <<"https://", "ex.com/", "q1">>

UrlB == <<"https://", "ex.com/", "q2">>

CsvUrl == <<"https://", "ex.com/", "data", ".csv">>

JsonUrl == <<"https://", "ex.com/", "data", ".json">>

SubmitUrl == <<"https://", "ex.com/", "submit">>

(* Rendered question pages *)
PageTexts ==
    { JsonUrl \o <<Sep>> \o SubmitUrl,
      <<"What", Sep, "is", Sep, "2+2">>,
      <<"https://", "ex.com/", "Answer", ".csv", Sep>> \o SubmitUrl,
      <<"https://", ".csv">> }

NoDict ==
    [isdict |-> FALSE, keys |-> {}, data_url |-> None, task |-> None,
     submit_url |-> None, answer_format |-> ""]

Dict(keys, data_url, task, submit, fmt) ==
    [isdict |-> TRUE, keys |-> keys, data_url |-> data_url, task |-> task,
     submit_url |-> submit, answer_format |-> fmt]

AllKeys == {"data_url", "task", "submit_url", "answer_format"}

(* JSON values the model can return for the parse prompt, once decoded *)
LlmJsonValues ==
    { Dict(AllKeys, Some(CsvUrl), Some(<<"sum">>), Some(SubmitUrl), "number"),
      Dict(AllKeys, None, Some(<<"sum">>), Some(SubmitUrl), "string"),
      Dict({"task", "data_url"}, Some(CsvUrl), Some(<<"sum">>), None, ""),
      Dict(AllKeys, None, Some(<<"sum">>), None, "boolean"),
      Dict(AllKeys, None, None, Some(SubmitUrl), "object"),
      NoDict }

(* Outcome of the parse-step model call: the API result and, for a text,
   whether it decodes as JSON and to what *)
ParseReplies ==
    { [api |-> a, json |-> FALSE, value |-> NoDict] : a \in ApiResults }
    \cup { [api |-> "text", json |-> TRUE, value |-> v] : v \in LlmJsonValues }

(* What requests.get can give download_data: no usable response (no
   connection, a timeout, a 4xx/5xx status), or a response with a
   content-type and a body. The body is "unreadable" for the reader its
   format selects, "null" (the JSON value null), "tables" (a JSON object
   with a key 'tables' that has no key 'text', or whose tables are not what
   extract_pdf_data builds), or "plain" (anything else) *)
ContentTypes == {"pdf", "csv", "json", "excel", "other"}

BodyKinds == {"unreadable", "null", "tables", "plain"}

DownloadOutcomes ==
    {[net |-> "error", content_type |-> "other", body |-> "plain"]}
    \cup [net : {"response"}, content_type : ContentTypes, body : BodyKinds]

-----------------------------------------------------------------------------
(* submit_answer *)

Result(keys, correct, url, err, details) ==
    [isdict |-> TRUE, keys |-> keys, correct |-> correct, url |-> url,
     error |-> err, details |-> details]

NonDictResult ==
    [isdict |-> FALSE, keys |-> {}, correct |-> FALSE, url |-> None,
     error |-> "", details |-> ""]

(* Decoded JSON bodies of the grading endpoint *)
GradeBodies ==
    { Result({"correct", "url"}, c, Some(u), "", "") :
          c \in BOOLEAN, u \in {UrlA, UrlB, <<>>} }
    \cup { Result({"correct"}, c, None, "", "") : c \in BOOLEAN }
    \cup { Result({"correct", "url"}, TRUE, None, "", ""),
           Result({"url"}, FALSE, Some(UrlB), "", ""),
           NonDictResult }

StatusCodes == {200, 300, 404, 500}

NoPost == [net |-> "", status |-> 0, json |-> FALSE, body |-> NonDictResult]

(* What requests.post can do: fail before a response, or give a final
   response with a status and a body that decodes as JSON or does not *)
PostOutcomes ==
    { [net |-> n, status |-> 0, json |-> FALSE, body |-> NonDictResult] :
          n \in {"conn_error", "timeout"} }
    \cup { [net |-> "response", status |-> st, json |-> FALSE,
            body |-> NonDictResult] : st \in StatusCodes }
    \cup { [net |-> "response", status |-> st, json |-> TRUE, body |-> b] :
              st \in StatusCodes, b \in GradeBodies }

(* The first character of a token is '.' *)
BeginsWithDot(tok) == tok \in DataExtensions

(* requests.post validates the URL before the transport: it rejects one
   without a scheme (None becomes 'None') or without a host, and one whose
   host begins with '.' ("URL has an invalid label."); the host begins
   with the token after the scheme *)
ValidUrl(u) ==
    /\ u.some
    /\ Len(u.val) >= 2
    /\ u.val[1] \in Schemes
    /\ ~BeginsWithDot(u.val[2])

(* Response.raise_for_status: raises HTTPError for 400..599 *)
RaisesForStatus(status) == status >= 400 /\ status < 600

(* `url.lower().endswith(ext)` *)
UrlEndsWith(url, ext) == Len(url) > 0 /\ Lower(url[Len(url)]) = ext

(* data_processor.py download_data, lines 14-39: the format is taken from
   the content-type or the end of the URL, in this order; every exception
   is raised again as "Failed to download data"; extract_pdf_data returns
   its dict whatever the bytes are. The value is "raise" or the kind of
   data returned ("null" for None) *)
download_data(url, o) ==
    IF ~ValidUrl(Some(url)) \/ o.net # "response" THEN "raise"
    ELSE IF o.content_type = "pdf" \/ UrlEndsWith(url, ".pdf") THEN "pdf"
    ELSE IF o.content_type = "csv" \/ UrlEndsWith(url, ".csv")
         THEN IF o.body = "unreadable" THEN "raise" ELSE "dataframe"
    ELSE IF o.content_type = "json" \/ UrlEndsWith(url, ".json")
         THEN CASE o.body = "unreadable" -> "raise"
                [] o.body = "null" -> "null"
                [] o.body = "tables" -> "json_tables"
                [] OTHER -> "json"
    ELSE IF o.content_type = "excel"
              \/ UrlEndsWith(url, ".xlsx") \/ UrlEndsWith(url, ".xls")
         THEN IF o.body = "unreadable" THEN "raise" ELSE "dataframe"
    ELSE "text"

(* data_processor.py _format_data_for_llm, lines 123-154: a dict with a key
   'tables' is read as the result of extract_pdf_data; a downloaded JSON
   object with that key raises at data['text'] or at table_info['data'] *)
_format_data_for_llm(kind) == IF kind = "json_tables" THEN "raise" ELSE "str"

ErrorResult(msg) == Result({"correct", "error"}, FALSE, None, msg, "")

Returns(v) == [raised |-> FALSE, value |-> v]

Raises == [raised |-> TRUE, value |-> NonDictResult]

(* Mutant: only HTTPError is caught, the second except clause is missing *)
submit_answerNoCatchAll(url, post) ==
    IF ~ValidUrl(url) THEN Raises
    ELSE IF post.net # "response" THEN Raises
    ELSE IF RaisesForStatus(post.status)
         THEN Returns(Result({"correct", "error", "details"}, FALSE, None,
                             "HTTP", "response.text"))
    ELSE IF ~post.json THEN Raises
    ELSE Returns(post.body)

(* submit_answer, lines 257-267: the HTTPError of raise_for_status goes to
   the first except clause, every other exception of the try body (an
   invalid URL, a connection error, a timeout, a body that is no JSON) to
   the second *)
submit_answer(url, post) ==
    IF ~ValidUrl(url) THEN Returns(ErrorResult("invalid url"))
    ELSE IF post.net # "response" THEN Returns(ErrorResult(post.net))
    ELSE IF RaisesForStatus(post.status)
         THEN Returns(Result({"correct", "error", "details"}, FALSE, None,
                             "HTTP", "response.text"))
    ELSE IF ~post.json THEN Returns(ErrorResult("json decode"))
    ELSE Returns(post.body)

-----------------------------------------------------------------------------
(* solve_question: the parse, data and answer steps as functions of what the
   model API and the data source give back *)

(* Lines 144-154: query the model and decode; the three prints read the
   parsed value, so a non-dict value or a null task raises inside the try
   as well; every failure yields the regex fallback *)
ParseStep(reply, text) ==
    IF query(reply.api) = "raise"
    THEN [parsed |-> _manual_parse(text), how |-> "fallback_query"]
    ELSE IF ~reply.json
    THEN [parsed |-> _manual_parse(text), how |-> "fallback_decode"]
    ELSE IF ~reply.value.isdict \/ ~Get(reply.value, "task", Some(<<"N/A">>)).some
    THEN [parsed |-> _manual_parse(text), how |-> "fallback_shape"]
    ELSE [parsed |-> reply.value, how |-> "llm"]

(* Mutant: a failed download is handed on as if it were data *)
DataStepKeepsFailure(parsed, outcome) ==
    LET url == Get(parsed, "data_url", None) IN
    IF ~Truthy(url)
    THEN [called |-> FALSE, data |-> None, how |-> "no_url"]
    ELSE LET d == download_data(url.val, outcome) IN
         IF d = "raise"
         THEN [called |-> TRUE, data |-> Some(<<"error">>), how |-> "download_failed"]
         ELSE IF d = "null"
         THEN [called |-> TRUE, data |-> None, how |-> "downloaded_null"]
         ELSE [called |-> TRUE, data |-> Some(<<d>>), how |-> "downloaded"]

(* Lines 156-166: download only for a truthy data_url; a download that
   raises leaves data = None *)
DataStep(parsed, outcome) ==
    LET url == Get(parsed, "data_url", None) IN
    IF ~Truthy(url)
    THEN [called |-> FALSE, data |-> None, how |-> "no_url"]
    ELSE LET d == download_data(url.val, outcome) IN
         IF d = "raise"
         THEN [called |-> TRUE, data |-> None, how |-> "download_failed"]
         ELSE IF d = "null"
         THEN [called |-> TRUE, data |-> None, how |-> "downloaded_null"]
         ELSE [called |-> TRUE, data |-> Some(<<d>>), how |-> "downloaded"]

(* Lines 168-195: the Data Analyzer when data is not None, the direct-answer
   prompt otherwise. process_and_analyze formats the data first
   (data_processor.py 96), outside any try: what the formatter raises
   leaves solve_question before a query is made. Otherwise one model
   query, whose failure leaves solve_question too; then the answer is
   cleaned and coerced *)
AnswerStep(parsed, d, api) ==
    IF d.some /\ _format_data_for_llm(d.val[1]) = "raise"
    THEN [raised |-> TRUE, queried |-> FALSE, error |-> "format_data raised",
          answer |-> None]
    ELSE IF query(api) = "raise"
    THEN [raised |-> TRUE, queried |-> TRUE,
          error |-> "Gemini API query failed", answer |-> None]
    ELSE [raised |-> FALSE, queried |-> TRUE, error |-> "",
          answer |-> Some(<<IF d.some THEN "analyzer" ELSE "direct",
                            Get(parsed, "answer_format", "string")>>)]

-----------------------------------------------------------------------------
(* POST /solve and solve_quiz_chain *)

max_questions == 20

(* Mutant: the secret check lets every request through *)
SecretOkAlways(req, e) == TRUE

SecretOk(req, e) == Some(req.secret) = e.SECRET_STRING

EmailOk(req, e) == Some(req.email) = e.STUDENT_EMAIL

(* Mutant: the cap is tested with <= *)
LoopCondOffByOne(url, count) == Truthy(url) /\ count <= max_questions

(* Mutant: the loop no longer tests current_url *)
LoopCondNoUrl(url, count) == count < max_questions

(* The while condition of the chain loop *)
LoopCond(url, count) == Truthy(url) /\ count < max_questions

(* Mutant: the next url is followed only after a correct answer *)
NextUrlOnlyIfCorrect(resp) ==
    IF resp.correct THEN Get(resp, "url", None) ELSE None

(* response.get('url') *)
NextUrl(resp) == Get(resp, "url", None)

(* Mutant: the except clause goes on with the next iteration *)
OnLoopExceptionContinue == "continue"

(* Mutant: the except clause re-raises to the caller *)
OnLoopExceptionReraise == "reraise"

(* The except clause of the loop body: print, then break *)
OnLoopException == "break"

NoHttp == [code |-> 0, status |-> "", detail |-> "", questions_solved |-> -1]

Envs ==
    [SECRET_STRING : {None, Some(<<"s3cret">>)},
     STUDENT_EMAIL : {None, Some(<<"me@x">>)},
     GEMINI_API_KEY : {None, Some(<<>>), Some(<<"key">>)}]

Requests ==
    [secret : {<<"s3cret">>, <<"wrong">>},
     email : {<<"me@x">>, <<"you@x">>},
     url : {<<>>, UrlA}]

Idle ==
    /\ http = NoHttp
    /\ solvers = 0
    /\ current_url = None
    /\ question_count = 0
    /\ question_text = <<>>
    /\ parsed_data = NoDict
    /\ parse_api = ""
    /\ parse_how = ""
    /\ data = None
    /\ data_how = ""
    /\ answer = None
    /\ submit_url = None
    /\ response = NonDictResult
    /\ error = ""
    /\ chain = "not_started"
    /\ renders = 0
    /\ answer_api = ""
    /\ last_post = NoPost
    /\ queries = 0
    /\ downloaded = FALSE
    /\ submissions = 0
    /\ submitted_for = {}

fqVars == <<fq_pc, fq_call, fq_playwright, fq_owner, fq_open, fq_browser,
            fq_content, fq_exc, fq_result>>

(* `content` of fetch_quiz_page before line 99, 102 or 105 binds it *)
NoContent == [from |-> "", text |-> <<>>]

NoFetchResult ==
    [kind |-> "none", content |-> NoContent, wrapped |-> FALSE, cause |-> "",
     context |-> <<>>]

(* No fetch_quiz_page call has been made *)
FqIdle ==
    /\ fq_pc = "idle"
    /\ fq_call = 0
    /\ fq_playwright = FALSE
    /\ fq_owner = <<>>
    /\ fq_open = {}
    /\ fq_browser = 0
    /\ fq_content = NoContent
    /\ fq_exc = <<>>
    /\ fq_result = NoFetchResult

pdVars == <<pd_pc, pd_pages, pd_page, pd_log, text_data, tables,
            pd_fallback, pd_result>>

NoPdfResult == [returned |-> FALSE, text |-> <<>>, tables |-> <<>>]

(* No extract_pdf_data call is under way *)
PdIdle ==
    /\ pd_pc = "idle"
    /\ pd_pages = 0
    /\ pd_page = 0
    /\ pd_log = <<>>
    /\ text_data = <<>>
    /\ tables = <<>>
    /\ pd_fallback = FALSE
    /\ pd_result = NoPdfResult

Init ==
    /\ env \in Envs
    /\ request \in Requests
    /\ pc = "verify_secret"
    /\ Idle
    /\ mp_text = <<>>
    /\ mp_result = NoDict
    /\ FqIdle
    /\ PdIdle

chainVars == <<current_url, question_count, question_text, parsed_data,
               parse_api, parse_how, data, data_how, answer, answer_api,
               submit_url, last_post, response, error, chain, renders, queries,
               downloaded, submissions, submitted_for>>

fixed == <<env, request, mp_text, mp_result, fqVars, pdVars>>

mainVars == <<env, request, pc, http, solvers, chainVars, mp_text, mp_result>>

(* app.py 21-25 *)
VerifySecret ==
    /\ pc = "verify_secret"
    /\ IF SecretOk(request, env)
       THEN pc' = "verify_email" /\ http' = http
       ELSE /\ pc' = "done"
            /\ http' = [NoHttp EXCEPT !.code = 403, !.detail = "Invalid secret"]
    /\ UNCHANGED <<solvers, chainVars, fixed>>

(* app.py 27-31 *)
VerifyEmail ==
    /\ pc = "verify_email"
    /\ IF EmailOk(request, env)
       THEN pc' = "construct" /\ http' = http
       ELSE /\ pc' = "done"
            /\ http' = [NoHttp EXCEPT !.code = 403, !.detail = "Invalid email"]
    /\ UNCHANGED <<solvers, chainVars, fixed>>

(* app.py 40: QuizSolver() stands before the try, so what its constructor
   raises leaves the handler and the server answers 500 *)
ConstructSolver ==
    /\ pc = "construct"
    /\ IF QuizSolverInit(env) = "raise"
       THEN /\ pc' = "done"
            /\ http' = [NoHttp EXCEPT !.code = 500, !.detail = "unhandled ValueError"]
            /\ UNCHANGED <<solvers, chainVars>>
       ELSE /\ pc' = "loop"
            /\ solvers' = solvers + 1
            /\ current_url' = Some(request.url)
            /\ question_count' = 0
            /\ chain' = "running"
            /\ UNCHANGED <<http, question_text, parsed_data, parse_api,
                           parse_how, data, data_how, answer, answer_api,
                           submit_url, last_post, response, error, renders,
                           queries, downloaded, submissions, submitted_for>>
    /\ UNCHANGED fixed

(* The except clause at lines 66-70, reached from any step of the loop body *)
Caught(what) ==
    /\ error' = what
    /\ CASE OnLoopException = "break" -> pc' = "summary" /\ chain' = chain
         [] OnLoopException = "continue" -> pc' = "loop" /\ chain' = chain
         [] OTHER -> pc' = "handler" /\ chain' = "raised"

(* Lines 27-28: the loop test and the increment. The values the previous
   iteration left in question_text, answer and submit_url are dead (each is
   assigned before it is read again) and solve_question's locals are gone,
   so the iteration starts with them cleared; response is kept *)
LoopEnter ==
    /\ pc = "loop"
    /\ LoopCond(current_url, question_count)
    /\ question_count' = question_count + 1
    /\ pc' = "fetch"
    /\ question_text' = <<>>
    /\ parsed_data' = NoDict
    /\ parse_api' = ""
    /\ parse_how' = ""
    /\ data' = None
    /\ data_how' = ""
    /\ answer' = None
    /\ answer_api' = ""
    /\ submit_url' = None
    /\ UNCHANGED <<http, solvers, current_url, last_post, response, error,
                   chain, renders, queries, downloaded, submissions,
                   submitted_for, fixed>>

LoopExit ==
    /\ pc = "loop"
    /\ ~LoopCond(current_url, question_count)
    /\ pc' = "summary"
    /\ UNCHANGED <<http, solvers, chainVars, fixed>>

(* browser.close() that returns, lines 108 and 112 *)
CloseBrowser(open, b) == open \ {b}

(* browser.close() that raises: the source does not settle whether the
   browser has ended *)
CloseBrowserRaised(open, b) == {open, open \ {b}}

(* Leaving `async with async_playwright()`: Playwright is stopped; no line
   of the source closes a browser that is still open then, and whether
   stopping Playwright ends it is the library's matter, so both outcomes
   are kept; b = 0 when none was launched *)
ContextExit(open, b) == {open, open \ {b}}

(* fetch_quiz_page, lines 80-83: the call starts with its locals unbound *)
FqStart ==
    /\ fq_pc = "idle"
    /\ fq_call' = fq_call + 1
    /\ fq_browser' = 0
    /\ fq_content' = NoContent
    /\ fq_exc' = <<>>
    /\ fq_pc' = "enter"
    /\ UNCHANGED <<fq_playwright, fq_owner, fq_open, fq_result>>

(* How a call of fetch_quiz_page ends: with the content, or with the
   exception in flight; what the except clause at 111-113 raised is
   "Failed to fetch quiz page: {e}" for the exception e of the try body
   (lines 90-109); an exception of the context entry, of launch, of
   new_page, of close() at 112 or of the context exit leaves as it is *)
FqResult(exc, content) ==
    IF exc = <<>>
    THEN [kind |-> "returned", content |-> content,
          wrapped |-> FALSE, cause |-> "", context |-> <<>>]
    ELSE [kind |-> "raised", content |-> NoContent,
          wrapped |-> exc[1] \in {"goto", "wait", "content", "close"},
          cause |-> exc[1], context |-> Tail(exc)]

(* Line 84: entering `async with async_playwright()`; when the driver does
   not start, its exception leaves the call with no context to exit *)
FqEnter ==
    /\ fq_pc = "enter"
    /\ \/ /\ fq_playwright' = TRUE
          /\ fq_pc' = "launch"
          /\ UNCHANGED <<fq_exc, fq_result>>
       \/ /\ fq_exc' = <<"enter">>
          /\ fq_result' = FqResult(<<"enter">>, fq_content)
          /\ fq_pc' = "idle"
          /\ UNCHANGED fq_playwright
    /\ UNCHANGED <<fq_call, fq_owner, fq_open, fq_browser, fq_content,
                   mainVars, pdVars>>

(* Line 85: a new browser, or an exception that leaves the call as it is *)
FqLaunch ==
    /\ fq_pc = "launch"
    /\ \/ /\ fq_owner' = Append(fq_owner, fq_call)
          /\ fq_open' = fq_open \cup {Len(fq_owner) + 1}
          /\ fq_browser' = Len(fq_owner) + 1
          /\ fq_pc' = "new_page"
          /\ UNCHANGED fq_exc
       \/ /\ fq_exc' = <<"launch">>
          /\ fq_pc' = "exit"
          /\ UNCHANGED <<fq_owner, fq_open, fq_browser>>
    /\ UNCHANGED <<fq_call, fq_playwright, fq_content, fq_result, mainVars,
                   pdVars>>

(* Line 86: stands before the try, so its exception leaves the call with
   no browser.close() *)
FqNewPage ==
    /\ fq_pc = "new_page"
    /\ \/ fq_pc' = "goto" /\ UNCHANGED fq_exc
       \/ fq_pc' = "exit" /\ fq_exc' = <<"new_page">>
    /\ UNCHANGED <<fq_call, fq_playwright, fq_owner, fq_open, fq_browser,
                   fq_content, fq_result, mainVars, pdVars>>

(* Line 90: await page.goto *)
FqGoto ==
    /\ fq_pc = "goto"
    /\ \/ fq_pc' = "wait" /\ UNCHANGED fq_exc
       \/ fq_pc' = "except" /\ fq_exc' = <<"goto">>
    /\ UNCHANGED <<fq_call, fq_playwright, fq_owner, fq_open, fq_browser,
                   fq_content, fq_result, mainVars, pdVars>>

(* Line 91: await page.wait_for_timeout(2000) *)
FqWait ==
    /\ fq_pc = "wait"
    /\ \/ fq_pc' = "query_selector" /\ UNCHANGED fq_exc
       \/ fq_pc' = "except" /\ fq_exc' = <<"wait">>
    /\ UNCHANGED <<fq_call, fq_playwright, fq_owner, fq_open, fq_browser,
                   fq_content, fq_result, mainVars, pdVars>>

(* Lines 97-98: await page.query_selector('#result'): the element, None, or
   an exception, which the bare except at 104 takes *)
FqQuerySelector ==
    /\ fq_pc = "query_selector"
    /\ \/ fq_pc' \in {"inner_text", "content"} /\ UNCHANGED fq_exc
       \/ fq_pc' = "content_fallback" /\ fq_exc' = <<"query_selector">>
    /\ UNCHANGED <<fq_call, fq_playwright, fq_owner, fq_open, fq_browser,
                   fq_content, fq_result, mainVars, pdVars>>

(* Line 99: await result_element.inner_text() *)
FqInnerText ==
    /\ fq_pc = "inner_text"
    /\ \/ /\ \E t \in PageTexts :
                fq_content' = [from |-> "result_text", text |-> t]
          /\ fq_pc' = "close"
          /\ UNCHANGED fq_exc
       \/ /\ fq_pc' = "content_fallback"
          /\ fq_exc' = <<"inner_text">>
          /\ UNCHANGED fq_content
    /\ UNCHANGED <<fq_call, fq_playwright, fq_owner, fq_open, fq_browser,
                   fq_result, mainVars, pdVars>>

(* Line 102: await page.content(), when there is no #result element *)
FqContent ==
    /\ fq_pc = "content"
    /\ \/ /\ \E t \in PageTexts :
                fq_content' = [from |-> "page_content", text |-> t]
          /\ fq_pc' = "close"
          /\ UNCHANGED fq_exc
       \/ /\ fq_pc' = "content_fallback"
          /\ fq_exc' = <<"content">>
          /\ UNCHANGED fq_content
    /\ UNCHANGED <<fq_call, fq_playwright, fq_owner, fq_open, fq_browser,
                   fq_result, mainVars, pdVars>>

(* Lines 104-105: await page.content() in the bare except, which is
   handling the exception of the inner try: when it returns, that
   exception is over; what it raises has that exception as its context
   and goes to the except clause at 111 *)
FqContentFallback ==
    /\ fq_pc = "content_fallback"
    /\ \/ /\ \E t \in PageTexts :
                fq_content' = [from |-> "page_content", text |-> t]
          /\ fq_pc' = "close"
          /\ fq_exc' = <<>>
       \/ /\ fq_pc' = "except"
          /\ fq_exc' = <<"content">> \o fq_exc
          /\ UNCHANGED fq_content
    /\ UNCHANGED <<fq_call, fq_playwright, fq_owner, fq_open, fq_browser,
                   fq_result, mainVars, pdVars>>

(* Lines 108-109: close and return the content; when close() raises, its
   exception goes to the except clause at 111 *)
FqClose ==
    /\ fq_pc = "close"
    /\ \/ /\ fq_open' = CloseBrowser(fq_open, fq_browser)
          /\ fq_pc' = "exit"
          /\ UNCHANGED fq_exc
       \/ /\ fq_open' \in CloseBrowserRaised(fq_open, fq_browser)
          /\ fq_pc' = "except"
          /\ fq_exc' = <<"close">>
    /\ UNCHANGED <<fq_call, fq_playwright, fq_owner, fq_browser, fq_content,
                   fq_result, mainVars, pdVars>>

(* Lines 111-113: close, then raise "Failed to fetch quiz page: {e}"; when
   this close() raises, its exception leaves the call in place of the
   wrapped one, with the caught exception as its context *)
FqExcept ==
    /\ fq_pc = "except"
    /\ \/ /\ fq_open' = CloseBrowser(fq_open, fq_browser)
          /\ UNCHANGED fq_exc
       \/ /\ fq_open' \in CloseBrowserRaised(fq_open, fq_browser)
          /\ fq_exc' = <<"close_in_except">> \o fq_exc
    /\ fq_pc' = "exit"
    /\ UNCHANGED <<fq_call, fq_playwright, fq_owner, fq_browser, fq_content,
                   fq_result, mainVars, pdVars>>

(* Line 84, on the way out: the context exits and the call returns the
   content or raises; when the exit itself raises, that exception leaves
   the call, whatever was returned or in flight *)
FqExit ==
    /\ fq_pc = "exit"
    /\ fq_playwright' = FALSE
    /\ fq_open' \in ContextExit(fq_open, fq_browser)
    /\ \/ /\ fq_result' = FqResult(fq_exc, fq_content)
          /\ UNCHANGED fq_exc
       \/ /\ fq_exc' = <<"exit">> \o fq_exc
          /\ fq_result' = FqResult(<<"exit">> \o fq_exc, fq_content)
    /\ fq_pc' = "idle"
    /\ UNCHANGED <<fq_call, fq_owner, fq_browser, fq_content, mainVars,
                   pdVars>>

(* The exception of a failed render as the loop's except clause sees it:
   the wrapped one, or the library's own, named by the call that raised *)
FetchError(r) == IF r.wrapped THEN "Failed to fetch quiz page" ELSE r.cause

(* Line 36, the call: `await self.fetch_quiz_page(current_url)` starts the
   render and the chain waits for it *)
Fetch ==
    /\ pc = "fetch"
    /\ FqStart
    /\ renders' = renders + 1
    /\ pc' = "fetching"
    /\ UNCHANGED <<http, solvers, current_url, question_count, question_text,
                   parsed_data, parse_api, parse_how, data, data_how, answer,
                   answer_api, submit_url, last_post, response, error, chain,
                   queries, downloaded, submissions, submitted_for, env,
                   request, mp_text, mp_result, pdVars>>

(* Line 36, the return: question_text is bound to what the call returned,
   or its exception goes to the except clause; the frame of the call and
   its result are gone after that *)
FetchReturn ==
    /\ pc = "fetching"
    /\ fq_pc = "idle"
    /\ IF fq_result.kind = "returned"
       THEN /\ question_text' = fq_result.content.text
            /\ pc' = "parse"
            /\ UNCHANGED <<error, chain>>
       ELSE /\ Caught(FetchError(fq_result))
            /\ UNCHANGED question_text
    /\ fq_browser' = 0
    /\ fq_content' = NoContent
    /\ fq_exc' = <<>>
    /\ fq_result' = NoFetchResult
    /\ UNCHANGED <<fq_pc, fq_call, fq_playwright, fq_owner, fq_open>>
    /\ UNCHANGED <<http, solvers, current_url, question_count, parsed_data,
                   parse_api, parse_how, data, data_how, answer, answer_api,
                   submit_url, last_post, response, renders, queries,
                   downloaded, submissions, submitted_for, env, request,
                   mp_text, mp_result, pdVars>>

(* solve_question, lines 144-154 *)
Parse ==
    /\ pc = "parse"
    /\ \E reply \in ParseReplies :
          /\ parsed_data' = ParseStep(reply, question_text).parsed
          /\ parse_how' = ParseStep(reply, question_text).how
          /\ parse_api' = reply.api
          /\ queries' = queries + 1
    /\ pc' = "data"
    /\ UNCHANGED <<http, solvers, current_url, question_count, question_text,
                   data, data_how, answer, answer_api, submit_url, last_post,
                   response, error, chain, renders, downloaded, submissions,
                   submitted_for, fixed>>

(* solve_question, lines 156-166 *)
Data ==
    /\ pc = "data"
    /\ \E outcome \in DownloadOutcomes :
          LET r == DataStep(parsed_data, outcome) IN
          /\ data' = r.data
          /\ data_how' = r.how
          /\ downloaded' = (downloaded \/ r.called)
    /\ pc' = "answer"
    /\ UNCHANGED <<http, solvers, current_url, question_count, question_text,
                   parsed_data, parse_api, parse_how, answer, answer_api,
                   submit_url, last_post, response, error, chain, renders,
                   queries, submissions, submitted_for, fixed>>

(* solve_question, lines 168-195 *)
Answer ==
    /\ pc = "answer"
    /\ \E api \in ApiResults :
          LET r == AnswerStep(parsed_data, data, api) IN
          /\ queries' = IF r.queried THEN queries + 1 ELSE queries
          /\ answer_api' = IF r.queried THEN api ELSE ""
          /\ IF r.raised
             THEN /\ Caught(r.error)
                  /\ UNCHANGED <<answer, submit_url>>
             ELSE /\ answer' = r.answer
                  /\ submit_url' = Get(parsed_data, "submit_url", Some(<<>>))
                  /\ pc' = "submit"
                  /\ UNCHANGED <<error, chain>>
    /\ UNCHANGED <<http, solvers, current_url, question_count, question_text,
                   parsed_data, parse_api, parse_how, data, data_how, last_post,
                   response, renders, downloaded, submissions, submitted_for,
                   fixed>>

(* Lines 46-64: submit, read `correct` and `url` from the result; a result
   that is no dict has no .get and raises into the except clause, as would
   an exception leaving submit_answer *)
Submit ==
    /\ pc = "submit"
    /\ \E post \in PostOutcomes :
          LET r == submit_answer(submit_url, post) IN
          /\ last_post' = post
          /\ submissions' = submissions + 1
          /\ submitted_for' = submitted_for \cup {question_count}
          /\ IF r.raised
             THEN /\ Caught("submit_answer raised")
                  /\ UNCHANGED <<response, current_url>>
             ELSE IF ~r.value.isdict
             THEN /\ response' = r.value
                  /\ Caught("AttributeError")
                  /\ UNCHANGED current_url
             ELSE /\ response' = r.value
                  /\ current_url' = NextUrl(r.value)
                  /\ pc' = "loop"
                  /\ UNCHANGED <<error, chain>>
    /\ UNCHANGED <<http, solvers, question_count, question_text, parsed_data,
                   parse_api, parse_how, data, data_how, answer, answer_api,
                   submit_url, renders, queries, downloaded, fixed>>

(* Lines 72-78: the summary and the return value *)
ChainReturn ==
    /\ pc = "summary"
    /\ chain' = "returned"
    /\ pc' = "handler"
    /\ UNCHANGED <<http, solvers, current_url, question_count, question_text,
                   parsed_data, parse_api, parse_how, data, data_how, answer,
                   answer_api, submit_url, last_post, response, error, renders,
                   queries, downloaded, submissions, submitted_for, fixed>>

(* app.py 41-52: the try around solve_quiz_chain *)
HandlerRespond ==
    /\ pc = "handler"
    /\ http' = IF chain = "returned"
               THEN [code |-> 200, status |-> "success",
                     detail |-> "Quiz solving completed",
                     questions_solved |-> question_count]
               ELSE [code |-> 200, status |-> "error", detail |-> error,
                     questions_solved |-> -1]
    /\ pc' = "done"
    /\ UNCHANGED <<solvers, chainVars, fixed>>

Next ==
    \/ VerifySecret
    \/ VerifyEmail
    \/ ConstructSolver
    \/ LoopEnter
    \/ LoopExit
    \/ Fetch
    \/ FqEnter
    \/ FqLaunch
    \/ FqNewPage
    \/ FqGoto
    \/ FqWait
    \/ FqQuerySelector
    \/ FqInnerText
    \/ FqContent
    \/ FqContentFallback
    \/ FqClose
    \/ FqExcept
    \/ FqExit
    \/ FetchReturn
    \/ Parse
    \/ Data
    \/ Answer
    \/ Submit
    \/ ChainReturn
    \/ HandlerRespond

Spec == Init /\ [][Next]_vars

-----------------------------------------------------------------------------
(* _manual_parse on its own: every question text of at most MaxTextLen
   tokens, and one call *)

MaxTextLen == 6

Texts == UNION { [1..n -> TextTokens] : n \in 0..MaxTextLen }

InitParse ==
    /\ env = [SECRET_STRING |-> None, STUDENT_EMAIL |-> None,
              GEMINI_API_KEY |-> None]
    /\ request = [secret |-> <<>>, email |-> <<>>, url |-> <<>>]
    /\ pc = "manual_parse"
    /\ Idle
    /\ mp_text \in Texts
    /\ mp_result = NoDict
    /\ FqIdle
    /\ PdIdle

ManualParseCall ==
    /\ pc = "manual_parse"
    /\ mp_result' = _manual_parse(mp_text)
    /\ pc' = "parsed"
    /\ UNCHANGED <<env, request, http, solvers, chainVars, mp_text, fqVars,
                   pdVars>>

NextParse == ManualParseCall

SpecParse == InitParse /\ [][NextParse]_vars

-----------------------------------------------------------------------------
(* fetch_quiz_page step by step: up to MaxCalls calls, one after the other *)

MaxCalls == 3

InitFetch ==
    /\ env = [SECRET_STRING |-> None, STUDENT_EMAIL |-> None,
              GEMINI_API_KEY |-> None]
    /\ request = [secret |-> <<>>, email |-> <<>>, url |-> <<>>]
    /\ pc = "fetch_quiz_page"
    /\ Idle
    /\ mp_text = <<>>
    /\ mp_result = NoDict
    /\ FqIdle
    /\ PdIdle

(* One call of fetch_quiz_page after the other *)
FqCall ==
    /\ pc = "fetch_quiz_page"
    /\ fq_call < MaxCalls
    /\ FqStart
    /\ UNCHANGED <<mainVars, pdVars>>

NextFetch ==
    \/ FqCall
    \/ FqEnter
    \/ FqLaunch
    \/ FqNewPage
    \/ FqGoto
    \/ FqWait
    \/ FqQuerySelector
    \/ FqInnerText
    \/ FqContent
    \/ FqContentFallback
    \/ FqClose
    \/ FqExcept
    \/ FqExit

SpecFetch == InitFetch /\ [][NextFetch]_vars

-----------------------------------------------------------------------------
(* extract_pdf_data step by step, for a PDF of up to MaxPages pages with up
   to MaxTables tables on a page *)

MaxPages == 2

MaxTables == 2

(* What page.extract_text() can do: raise, give None or '', give text *)
TextOutcomes == {"raise", "none", "text"}

(* A table of extract_tables(): falsy, one pd.DataFrame accepts, or one it
   raises on *)
TableKinds == {"empty", "valid", "malformed"}

TableLists == UNION { [1..n -> TableKinds] : n \in 0..MaxTables }

(* Lines 59-73: the tables of one page; an empty table is passed over, a
   malformed one is caught on its own, a valid one is appended with its
   1-based number *)
RECURSIVE PageTables(_, _, _)
PageTables(page_num, page_tables, i) ==
    IF i > Len(page_tables) THEN <<>>
    ELSE (IF page_tables[i] = "valid" THEN <<<<page_num, i>>>> ELSE <<>>)
            \o PageTables(page_num, page_tables, i + 1)

InitPdf ==
    /\ env = [SECRET_STRING |-> None, STUDENT_EMAIL |-> None,
              GEMINI_API_KEY |-> None]
    /\ request = [secret |-> <<>>, email |-> <<>>, url |-> <<>>]
    /\ pc = "extract_pdf_data"
    /\ Idle
    /\ mp_text = <<>>
    /\ mp_result = NoDict
    /\ FqIdle
    /\ pd_pc = "open"
    /\ pd_pages \in 0..MaxPages
    /\ pd_page = 0
    /\ pd_log = <<>>
    /\ text_data = <<>>
    /\ tables = <<>>
    /\ pd_fallback = FALSE
    /\ pd_result = NoPdfResult

pdOthers == <<env, request, pc, http, solvers, chainVars, mp_text, mp_result,
              fqVars>>

(* Lines 43-49: pdfplumber opens the file or raises *)
PdOpen ==
    /\ pd_pc = "open"
    /\ \/ pd_pc' = "page" /\ pd_page' = 1
       \/ pd_pc' = "fallback_open" /\ UNCHANGED pd_page
    /\ UNCHANGED <<pd_pages, pd_log, text_data, tables, pd_fallback,
                   pd_result, pdOthers>>

(* Lines 50-73: one page of the primary loop; the text is appended before
   the tables are extracted, and either extraction may raise *)
PdPage ==
    /\ pd_pc = "page"
    /\ pd_page <= pd_pages
    /\ \E t \in TextOutcomes :
          \/ /\ t = "raise"
             /\ pd_pc' = "fallback_open"
             /\ UNCHANGED <<pd_page, pd_log, text_data, tables>>
          \/ /\ t # "raise"
             /\ text_data' = IF t = "text"
                             THEN Append(text_data, <<pd_page, "pdfplumber">>)
                             ELSE text_data
             /\ \/ /\ pd_pc' = "fallback_open"
                   /\ UNCHANGED <<pd_page, pd_log, tables>>
                \/ \E page_tables \in TableLists :
                      /\ tables' = tables \o PageTables(pd_page, page_tables, 1)
                      /\ pd_log' = Append(pd_log, [text |-> t,
                                                   tables |-> page_tables])
                      /\ pd_page' = pd_page + 1
                      /\ pd_pc' = "page"
    /\ UNCHANGED <<pd_pages, pd_fallback, pd_result, pdOthers>>

(* The primary loop is through *)
PdEnd ==
    /\ pd_pc = "page"
    /\ pd_page > pd_pages
    /\ pd_pc' = "return"
    /\ UNCHANGED <<pd_pages, pd_page, pd_log, text_data, tables, pd_fallback,
                   pd_result, pdOthers>>

(* Lines 74-79 and 84-85: the except clause rewinds the file and opens it
   with PyPDF2; text_data and tables keep what the primary path put there *)
PdFallbackOpen ==
    /\ pd_pc = "fallback_open"
    /\ pd_fallback' = TRUE
    /\ \/ pd_pc' = "fallback_page" /\ pd_page' = 1
       \/ pd_pc' = "return" /\ UNCHANGED pd_page
    /\ UNCHANGED <<pd_pages, pd_log, text_data, tables, pd_result, pdOthers>>

(* Lines 80-85: one page of the fallback loop *)
PdFallbackPage ==
    /\ pd_pc = "fallback_page"
    /\ pd_page <= pd_pages
    /\ \E t \in TextOutcomes :
          IF t = "raise"
          THEN pd_pc' = "return" /\ UNCHANGED <<pd_page, text_data>>
          ELSE /\ text_data' = IF t = "text"
                               THEN Append(text_data, <<pd_page, "PyPDF2">>)
                               ELSE text_data
               /\ pd_page' = pd_page + 1
               /\ pd_pc' = "fallback_page"
    /\ UNCHANGED <<pd_pages, pd_log, tables, pd_fallback, pd_result, pdOthers>>

PdFallbackEnd ==
    /\ pd_pc = "fallback_page"
    /\ pd_page > pd_pages
    /\ pd_pc' = "return"
    /\ UNCHANGED <<pd_pages, pd_page, pd_log, text_data, tables, pd_fallback,
                   pd_result, pdOthers>>

(* Lines 87-90 *)
PdReturn ==
    /\ pd_pc = "return"
    /\ pd_result' = [returned |-> TRUE, text |-> text_data, tables |-> tables]
    /\ pd_pc' = "returned"
    /\ UNCHANGED <<pd_pages, pd_page, pd_log, text_data, tables, pd_fallback,
                   pdOthers>>

NextPdf ==
    \/ PdOpen
    \/ PdPage
    \/ PdEnd
    \/ PdFallbackOpen
    \/ PdFallbackPage
    \/ PdFallbackEnd
    \/ PdReturn

SpecPdf == InitPdf /\ [][NextPdf]_vars

-----------------------------------------------------------------------------
(* Properties *)

(* The chain driver has left its loop *)
ChainOver == pc \in {"summary", "handler", "done"}

(* The current iteration is before its submission *)
InIteration == pc \in {"fetch", "fetching", "parse", "data", "answer", "submit"}

SecretMatches == Some(request.secret) = env.SECRET_STRING

EmailMatches == Some(request.email) = env.STUDENT_EMAIL

(* C1: question_count never exceeds max_questions = 20, nor does the number
   of renders or of submissions; and a chain that left its loop with no
   error recorded while the last submission still carried a non-empty url
   did exactly 20 iterations, 20 renders and 20 submissions and returns
   questions_solved = 20 *)
C1_CapAtMaxQuestions ==
    /\ max_questions = 20
    /\ question_count <= max_questions
    /\ renders <= max_questions
    /\ submissions <= max_questions
    /\ (ChainOver /\ error = "" /\ Truthy(current_url))
          => /\ question_count = max_questions
             /\ renders = max_questions
             /\ submissions = max_questions
    /\ (pc = "done" /\ http.code = 200 /\ error = "" /\ Truthy(current_url))
          => http.status = "success" /\ http.questions_solved = max_questions

C1_Witness ==
    /\ pc = "done"
    /\ error = ""
    /\ Truthy(current_url)
    /\ submissions = max_questions
    /\ http.questions_solved = max_questions

(* C2: every iteration after the first renders the url of the previous
   submission result; once a submission result has no url or an empty one,
   the driver is out of the iteration for good with no render after that
   submission; and a chain whose only submission result has no url returns
   questions_solved = 1 after one render *)
C2_FollowUrlThenStop ==
    /\ (InIteration /\ question_count = 1) => current_url = Some(request.url)
    /\ (InIteration /\ question_count > 1)
          => current_url = NextUrl(response) /\ Truthy(current_url)
    /\ (submissions >= 1 /\ ~Truthy(NextUrl(response)))
          => /\ ~InIteration
             /\ renders = submissions
             /\ question_count = submissions
    /\ (pc = "done" /\ submissions = 1 /\ ~Truthy(NextUrl(response)))
          => /\ http.status = "success"
             /\ http.questions_solved = 1
             /\ renders = 1

C2_Witness ==
    /\ pc = "done"
    /\ submissions = 1
    /\ response.isdict
    /\ "url" \notin response.keys
    /\ "error" \notin response.keys
    /\ http.questions_solved = 1

(* C3: a request whose secret or email differs from the configured value
   never gets a solver, a render, a model query, a download or a submission,
   and its response is 403 *)
C3_MismatchIs403 ==
    (~SecretMatches \/ ~EmailMatches)
       => /\ solvers = 0
          /\ chain = "not_started"
          /\ renders = 0
          /\ queries = 0
          /\ ~downloaded
          /\ submissions = 0
          /\ pc = "done" => http.code = 403 /\ http.status = ""

C3_Witness ==
    /\ pc = "done"
    /\ ~SecretMatches
    /\ EmailMatches
    /\ Truthy(env.GEMINI_API_KEY)
    /\ http.code = 403
    /\ solvers = 0

(* C4: every request that passes the secret and email checks is answered
   200 with status success or error; nothing leaves the handler *)
C4_NothingEscapes ==
    (pc = "done" /\ SecretMatches /\ EmailMatches)
       => http.code = 200 /\ http.status \in {"success", "error"}

(* What the loop's except clause records when fetch_quiz_page raised: the
   wrapped exception, or the library's own from the context entry, the
   launch, new_page, close() in the except clause or the context exit *)
RenderFailures ==
    {"Failed to fetch quiz page", "enter", "launch", "new_page",
     "close_in_except", "exit"}

(* C5: after a render failure in iteration k the driver is out of the loop
   without having raised, iteration k did no model query and no submission
   (two queries and one submission for each of the k-1 earlier iterations),
   and what is returned is questions_solved = k; and every summary the
   driver returns carries the number of iterations started, one render
   each *)
C5_RenderFailureStops ==
    /\ error \in RenderFailures
          => /\ ChainOver
             /\ chain # "raised"
             /\ parse_api = "" /\ answer_api = ""
             /\ queries = 2 * (question_count - 1)
             /\ submissions = question_count - 1
             /\ question_count \notin submitted_for
    /\ (ChainOver /\ chain # "not_started") => renders = question_count
    /\ (pc = "done" /\ chain # "not_started")
          => /\ chain = "returned"
             /\ http.code = 200
             /\ http.questions_solved = renders

C5_Witness ==
    /\ pc = "done"
    /\ error = "Failed to fetch quiz page"
    /\ question_count = 2
    /\ submissions = 1
    /\ http.questions_solved = 2

RunFailures == RenderFailures \cup {"Gemini API query failed"}

(* C6, as claimed: a run ended by a render failure or by a failed
   answer-step model query is answered with status error *)
C6_ReportedAsError ==
    (pc = "done" /\ error \in RunFailures)
       => http.code = 200 /\ http.status = "error"

(* C6, amended: a render failure or a failed answer-step model query ends
   the chain run inside the driver, which returns its summary, so the
   request is answered 200 with status success and questions_solved equal
   to the number of questions started *)
C6_ReportedAsSuccess ==
    /\ error \in RunFailures => ChainOver /\ chain # "raised"
    /\ (pc = "done" /\ error \in RunFailures)
          => /\ http.code = 200
             /\ http.status = "success"
             /\ http.questions_solved = question_count

C6_Witness ==
    /\ pc = "done"
    /\ error = "Gemini API query failed"
    /\ answer_api = "api_error"
    /\ http.status = "success"
    /\ http.questions_solved = 1

(* The current question's answer has been handed to submit_answer *)
JustSubmitted == question_count \in submitted_for

IsErrorResult(r) ==
    /\ r.isdict
    /\ "correct" \in r.keys /\ r.correct = FALSE
    /\ "error" \in r.keys

GotResponse == ValidUrl(submit_url) /\ last_post.net = "response"

(* C7, as claimed: submit_answer never raises; it returns the decoded JSON
   when the POST got a 2xx response with a JSON body, and otherwise a
   result with correct = false and error, with details for a non-2xx
   status *)
C7_ErrorUnlessStatus2xx ==
    JustSubmitted
       => /\ error # "submit_answer raised"
          /\ IF GotResponse /\ last_post.status \in 200..299 /\ last_post.json
             THEN response = last_post.body
             ELSE /\ IsErrorResult(response)
                  /\ (GotResponse /\ last_post.status \notin 200..299)
                        => "details" \in response.keys

(* C7, amended: submit_answer never raises; it returns the decoded JSON
   when the POST got a response whose status is outside 400..599 with a
   JSON body, and otherwise a result with correct = false and error, with
   details exactly for a status in 400..599 *)
C7_ErrorUnlessStatusBelow400 ==
    JustSubmitted
       => /\ error # "submit_answer raised"
          /\ IF GotResponse /\ last_post.status \notin 400..599 /\ last_post.json
             THEN response = last_post.body
             ELSE /\ IsErrorResult(response)
                  /\ ~Truthy(NextUrl(response))
                  /\ "details" \in response.keys
                        <=> (GotResponse /\ last_post.status \in 400..599)

C7_Witness ==
    /\ JustSubmitted
    /\ GotResponse
    /\ last_post.status = 200
    /\ ~last_post.json
    /\ IsErrorResult(response)
    /\ "details" \notin response.keys

ApiFailures == {"api_error", "empty"}

ParseFailed ==
    \/ parse_api \in ApiFailures
    \/ parse_how \in {"fallback_query", "fallback_decode", "fallback_shape"}

Degraded == ParseFailed \/ data_how = "download_failed"

(* The answer step ended in the Data Analyzer's formatter, before its query *)
FormatterRaised == error = "format_data raised"

(* C8: a failed parse step leaves the regex fallback's result in
   parsed_data; a failed download leaves data = None and the answer comes
   from the direct-answer prompt; and after either the solver goes on to the
   data and answer steps, the driver submits the answer once the answer
   step succeeded, and the chain is never ended by the failure itself: a
   degraded question ends the chain without a submission only when its
   answer step failed, in its query or, for data that was downloaded, in
   the formatter *)
C8_DegradeNotFatal ==
    /\ ParseFailed => parsed_data = _manual_parse(question_text)
    /\ data_how = "download_failed"
          => /\ data = None
             /\ answer.some => answer.val[1] = "direct"
             /\ ~FormatterRaised
    /\ (Degraded /\ answer_api = "" /\ ~FormatterRaised)
          => pc \in {"data", "answer"}
    /\ (Degraded /\ answer_api = "text")
          => /\ answer.some
             /\ pc = "submit" \/ JustSubmitted
    /\ (Degraded /\ ChainOver)
          => answer_api \in ApiFailures \/ FormatterRaised \/ JustSubmitted
    /\ FormatterRaised
          => /\ data_how = "downloaded"
             /\ data = Some(<<"json_tables">>)
             /\ answer_api = ""
             /\ ChainOver /\ ~JustSubmitted

C8_Witness ==
    /\ JustSubmitted
    /\ parse_how = "fallback_decode"
    /\ data_how = "download_failed"
    /\ answer = Some(<<"direct", "string">>)
    /\ submit_url = Some(SubmitUrl)

(* C9, as claimed: whenever a model query of the current question failed,
   no answer is submitted for that question *)
C9_AnyQueryFailureFatal ==
    (parse_api \in ApiFailures \/ answer_api \in ApiFailures)
       => ~JustSubmitted /\ pc # "submit"

(* C9, amended: a failed (empty or erroring) answer-step query is fatal to
   the question: no answer is submitted for it and the chain run ends with
   the error recorded; a failed parse-step query is not: it yields the
   regex fallback and the question goes on *)
C9_AnswerQueryFailureFatal ==
    /\ answer_api \in ApiFailures
          => /\ ChainOver
             /\ chain # "raised"
             /\ error = "Gemini API query failed"
             /\ ~JustSubmitted
             /\ submissions = question_count - 1
    /\ parse_api \in ApiFailures
          => /\ parse_how = "fallback_query"
             /\ parsed_data = _manual_parse(question_text)
             /\ error = "Gemini API query failed" => answer_api \in ApiFailures

C9_Witness ==
    /\ pc = "done"
    /\ parse_api = "text"
    /\ answer_api = "empty"
    /\ question_count = 2
    /\ submissions = 1
    /\ error = "Gemini API query failed"

-----------------------------------------------------------------------------
(* Properties of _manual_parse, under SpecParse *)

EndsWith(url, tok) == url # <<>> /\ url[Len(url)] = tok

Contains(url, tok) == \E i \in 1..Len(url) : url[i] = tok

mp_urls == FindUrls(mp_text, 1)

(* The text's URLs are a URL ending in .csv at position i and another URL,
   the only one to contain `submit`, at position j *)
CsvAndSubmitAt(i, j) ==
    /\ Len(mp_urls) = 2
    /\ {i, j} = {1, 2}
    /\ EndsWith(mp_urls[i], ".csv") /\ ~EndsWith(mp_urls[j], ".csv")
    /\ Contains(mp_urls[j], "submit") /\ ~Contains(mp_urls[i], "submit")

ParsedAs(data_url, submit) ==
    /\ mp_result.isdict
    /\ mp_result.data_url = Some(data_url)
    /\ mp_result.submit_url = Some(submit)
    /\ mp_result.answer_format = "string"

(* C10, as claimed: for a text with one URL ending in .csv and one URL
   containing submit, in either order, data_url is the .csv URL and
   submit_url the submit URL *)
C10_CsvAndSubmitAssigned ==
    \A i, j \in {1, 2} :
        (pc = "parsed" /\ CsvAndSubmitAt(i, j))
           => ParsedAs(mp_urls[i], mp_urls[j])

(* C10, amended: the same, for a .csv URL that contains neither `submit`
   nor `answer` in any letter case *)
C10_PlainCsvAndSubmitAssigned ==
    \A i, j \in {1, 2} :
        (pc = "parsed" /\ CsvAndSubmitAt(i, j) /\ ~IsSubmitUrl(mp_urls[i]))
           => ParsedAs(mp_urls[i], mp_urls[j])

C10_Witness ==
    /\ pc = "parsed"
    /\ CsvAndSubmitAt(2, 1)
    /\ ~IsSubmitUrl(mp_urls[2])
    /\ Contains(mp_urls[1], ".csv")
    /\ ParsedAs(mp_urls[2], mp_urls[1])

-----------------------------------------------------------------------------
(* Submission failures and the chain, under Spec *)

(* A graded result: the endpoint's own JSON object, not a synthetic one *)
Graded == response.isdict /\ "error" \notin response.keys

(* C13, as claimed: after a submission that met a network error, a non-2xx
   status or an empty or missing submit_url, the loop is not entered
   again *)
C13_Non2xxEndsChain ==
    (pc = "loop" /\ JustSubmitted
        /\ (~GotResponse \/ last_post.status \notin 200..299))
       => ~LoopCond(current_url, question_count)

(* C13, amended: a submission that met a network error, a 4xx or 5xx
   status, a body that is no JSON or an invalid (empty, missing) submit_url
   gives a synthetic result, raises nothing and leaves no url, so the loop is
   never entered again: every iteration after the first follows a POST that
   got a response outside 400..599 with a JSON body; and a graded result
   that is incorrect but carries a url lets the loop go on while fewer than
   max_questions questions were started *)
C13_FailedSubmissionEndsChain ==
    /\ (JustSubmitted
          /\ (~GotResponse \/ last_post.status \in 400..599 \/ ~last_post.json))
          => /\ IsErrorResult(response)
             /\ error = ""
             /\ ~Truthy(current_url)
             /\ ~InIteration
             /\ ~LoopCond(current_url, question_count)
             /\ renders = question_count
             /\ submissions = question_count
    /\ (InIteration /\ question_count > 1)
          => /\ last_post.net = "response"
             /\ last_post.status \notin 400..599
             /\ last_post.json
             /\ Graded
    /\ (JustSubmitted /\ Graded /\ ~response.correct
          /\ Truthy(Get(response, "url", None))
          /\ question_count < max_questions)
          => /\ pc = "loop"
             /\ error = ""
             /\ LoopCond(current_url, question_count)
             /\ current_url = response.url

C13_Witness ==
    /\ pc = "done"
    /\ question_count = 2
    /\ JustSubmitted
    /\ last_post.net = "conn_error"
    /\ IsErrorResult(response)
    /\ submissions = 2
    /\ http.questions_solved = 2

-----------------------------------------------------------------------------
(* Properties of fetch_quiz_page, under SpecFetch *)

(* C12: between calls no browser is open and the playwright context is
   left, whichever way the call ended; a browser bound in a call was
   launched by that call; a call in which navigation failed ends with the
   wrapped "Failed to fetch quiz page" exception that carries the
   navigation error as its cause; and a call that ends with no exception
   returns the content *)
C12_BrowserClosedOnEveryPath ==
    /\ fq_pc = "idle" => fq_open = {} /\ ~fq_playwright
    /\ fq_browser # 0 => fq_owner[fq_browser] = fq_call
    /\ Len(fq_owner) <= fq_call
    /\ (fq_pc = "idle" /\ fq_exc # <<>> /\ fq_exc[Len(fq_exc)] = "goto")
          => /\ fq_result.kind = "raised"
             /\ fq_result.wrapped
             /\ fq_result.cause = "goto"
    /\ (fq_pc = "idle" /\ fq_exc = <<>> /\ fq_call > 0)
          => /\ fq_result.kind = "returned"
             /\ fq_result.content.from \in {"result_text", "page_content"}

-----------------------------------------------------------------------------
(* Properties of extract_pdf_data, under SpecPdf *)

Range(seq) == { seq[i] : i \in 1..Len(seq) }

(* The valid tables of the pages pdfplumber finished *)
ValidTablesOf(log) ==
    { <<p, i>> : p \in 1..Len(log), i \in 1..MaxTables } \cap
    { x \in (1..Len(log)) \X (1..MaxTables) :
         x[2] <= Len(log[x[1]].tables) /\ log[x[1]].tables[x[2]] = "valid" }

NoPageTwice(text) ==
    \A i, j \in 1..Len(text) : text[i][1] = text[j][1] => i = j

(* C11: the call always ends by returning; when the primary path went
   through, the result has the text of every page that has text and every
   valid table, a malformed table costing only itself; when the fallback
   ran, the result has no tables and no page's text twice *)
C11_FallbackResultClean ==
    /\ pd_pc = "returned" => pd_result.returned
    /\ (pd_pc = "returned" /\ ~pd_fallback)
          => /\ Len(pd_log) = pd_pages
             /\ Range(pd_result.tables) = ValidTablesOf(pd_log)
             /\ Len(pd_result.tables) = Cardinality(ValidTablesOf(pd_log))
             /\ \A p \in 1..pd_pages :
                   (pd_log[p].text = "text")
                      <=> <<p, "pdfplumber">> \in Range(pd_result.text)
    /\ (pd_pc = "returned" /\ pd_fallback)
          => /\ pd_result.tables = <<>>
             /\ NoPageTwice(pd_result.text)

====
